---- MODULE Spec2Model ----
(***************************************************************************)
(* A model of the moqayada land marketplace program                        *)
(* (programs/moqayada/src/lib.rs): the Marketplace singleton, the          *)
(* LandParcel and Listing accounts, the lamport balances moved by the      *)
(* program's transfers, the cluster clock, and the six instructions.       *)
(*                                                                         *)
(* Every instruction is one atomic step: the account constraints of its    *)
(* Accounts struct are evaluated first, then the handler body; an Err      *)
(* anywhere discards every write of the instruction (the runtime commits   *)
(* a transaction only when the instruction returns Ok).                    *)
(*                                                                         *)
(* u64 values are kept at their width as four 16-bit limbs, least          *)
(* significant first, so that checked_mul / checked_add overflow at 2^64.  *)
(* Lamports charged by the runtime for account creation (rent) are not     *)
(* part of the program's own transfers and are not tracked in balances.    *)
(***************************************************************************)
EXTENDS Integers, Sequences, FiniteSets, TLC

VARIABLES marketplace, parcels, listings, balances, now, lastOp

vars == <<marketplace, parcels, listings, balances, now, lastOp>>

-----------------------------------------------------------------------------
(* Program constants                                                       *)

MAX_COORDINATE == 10000
MIN_COORDINATE == -10000
MAX_URI_LENGTH == 200
MAX_NAME_LENGTH == 32
MIN_PRICE == 1000000
LISTING_DURATION_SECONDS == 30 * 24 * 60 * 60
\* the literal of the two require!(.. <= 1000, FeeTooHigh) checks
MAX_FEE == 1000
\* the literal divisor of the fee computation
BASIS_POINTS_DIVISOR == 10000

-----------------------------------------------------------------------------
(* Bounds of the model                                                     *)

\* how many parcels are minted at most
MaxParcels == 1
\* how many parcels are minted at most under SpecMarket
MaxMarketParcels == 2
\* how many seconds past the deployment the clock advances at most
MaxTicks == 2

-----------------------------------------------------------------------------
(* u64 arithmetic on four 16-bit limbs                                      *)

Limb == 2 ^ 16

\* the u64 of a small natural number (below 2^31)
U64(n) == <<n % Limb, n \div Limb, 0, 0>>

Zero == <<0, 0, 0, 0>>

\* 2^63
Pow63 == <<0, 0, 0, 32768>>

\* the natural number of a u64 below 2^31
ToInt(a) == a[1] + a[2] * Limb

IsSmall(a) == a[3] = 0 /\ a[4] = 0 /\ a[2] < 32768

None == [ok |-> FALSE, val |-> Zero]
Some(v) == [ok |-> TRUE, val |-> v]

\* checked_add with the addend dropped
checked_add_kept(a, b) == Some(a)

\* u64::checked_add
checked_add(a, b) ==
    LET s0 == a[1] + b[1]
        s1 == a[2] + b[2] + s0 \div Limb
        s2 == a[3] + b[3] + s1 \div Limb
        s3 == a[4] + b[4] + s2 \div Limb
    IN  IF s3 \div Limb = 0
        THEN Some(<<s0 % Limb, s1 % Limb, s2 % Limb, s3 % Limb>>)
        ELSE None

\* u64::checked_sub
checked_sub(a, b) ==
    LET d0 == a[1] - b[1]
        b0 == IF d0 < 0 THEN 1 ELSE 0
        d1 == a[2] - b[2] - b0
        b1 == IF d1 < 0 THEN 1 ELSE 0
        d2 == a[3] - b[3] - b1
        b2 == IF d2 < 0 THEN 1 ELSE 0
        d3 == a[4] - b[4] - b2
    IN  IF d3 >= 0
        THEN Some(<<d0 + b0 * Limb, d1 + b1 * Limb, d2 + b2 * Limb, d3>>)
        ELSE None

\* u64::checked_mul by a multiplier k that fits in 16 bits (a u16 cast to u64)
checked_mul(a, k) ==
    LET p0 == a[1] * k
        p1 == a[2] * k + p0 \div Limb
        p2 == a[3] * k + p1 \div Limb
        p3 == a[4] * k + p2 \div Limb
    IN  IF p3 \div Limb = 0
        THEN Some(<<p0 % Limb, p1 % Limb, p2 % Limb, p3 % Limb>>)
        ELSE None

\* u64::checked_div by a divisor d that fits in 16 bits: None only for d = 0
checked_div(a, d) ==
    IF d = 0 THEN None
    ELSE LET t3 == a[4]
             t2 == (t3 % d) * Limb + a[3]
             t1 == (t2 % d) * Limb + a[2]
             t0 == (t1 % d) * Limb + a[1]
         IN  Some(<<t0 \div d, t1 \div d, t2 \div d, t3 \div d>>)

\* a >= b on u64
u64_ge(a, b) == checked_sub(a, b).ok

\* u32::checked_add(1): None exactly at u32::MAX = 65535 * 2^16 + 65535
checked_add_u32(n) ==
    IF n \div Limb = Limb - 1 /\ n % Limb = Limb - 1
    THEN [ok |-> FALSE, val |-> 0]
    ELSE [ok |-> TRUE, val |-> n + 1]

\* checked_sub_u32 with the decrement forgotten
checked_sub_u32_kept(n) == [ok |-> TRUE, val |-> n]

\* u32::checked_sub(1)
checked_sub_u32(n) ==
    IF n = 0 THEN [ok |-> FALSE, val |-> 0] ELSE [ok |-> TRUE, val |-> n - 1]

-----------------------------------------------------------------------------
(* Accounts and inputs                                                     *)

\* the keys that sign, pay and receive
Keys == {"alice", "bob", "carol"}
NoKey == "none"

\* the lamports each key holds before the first instruction
InitialBalances ==
    [k \in Keys |->
        CASE k = "alice" -> checked_add(Pow63, U64(3 * MIN_PRICE)).val
          [] k = "bob"   -> U64(2 * MIN_PRICE - 20000)
          [] OTHER       -> Zero]

\* who initializes the marketplace, and the treasury it names
AuthorityInputs == {"alice"}
TreasuryInputs == {"carol"}

\* who parcels are minted to
OwnerInputs == {"alice", "bob"}

\* fee arguments: zero, the default 2.5%, the maximum, and one above it
FeeInputs == {0, 250, MAX_FEE, MAX_FEE + 1}

\* price arguments: below and at the floor, one that does not divide evenly,
\* the scenario price 2,000,000, and 2^63
PriceInputs ==
    {U64(MIN_PRICE - 1), U64(MIN_PRICE), U64(MIN_PRICE + 39),
     U64(2 * MIN_PRICE), Pow63}

\* Option<i64>: <<>> is None, <<t>> is Some(t)
ExpiryInputs(t) ==
    {<<>>, <<t>>, <<t + 1>>,
     <<t + LISTING_DURATION_SECONDS>>, <<t + LISTING_DURATION_SECONDS + 1>>}

\* (price, expires_at) arguments: every pair of a price and an expiry of which
\* at most one is invalid
ListInputs(t) ==
    {a \in PriceInputs \X ExpiryInputs(t) :
        \/ u64_ge(a[1], U64(MIN_PRICE))
        \/ a[2] \in {<<>>, <<t + 1>>}}

\* two pairs of valid arguments
RelistInputs(t) == {<<U64(2 * MIN_PRICE), <<>> >>, <<U64(MIN_PRICE), <<t + 1>> >>}

CoordinateInputs ==
    {[x |-> 100, y |-> 200],
     [x |-> MIN_COORDINATE - 1, y |-> 0],
     [x |-> 0, y |-> MAX_COORDINATE + 1]}

\* how far one step of the clock goes
TickInputs == {1}


-----------------------------------------------------------------------------
(* Account records                                                         *)

\* the marketplace PDA before initialize_marketplace
NoMarketplace ==
    [initialized |-> FALSE, authority |-> NoKey, fee_percentage |-> 0,
     treasury |-> NoKey, total_volume |-> Zero, active_listings |-> 0,
     total_parcels_minted |-> Zero]

\* the listing PDA of a parcel before list_parcel_for_sale created it
NoListing ==
    [exists |-> FALSE, seller |-> NoKey, parcel_mint |-> 0, price |-> Zero,
     created_at |-> 0, expires_at |-> <<>>, status |-> "None"]

\* the last instruction processed: its name, the parcel it addressed (0 for
\* none), its error ("Ok" for none) and the transfers it committed
Op(op, parcel, err, cpi) ==
    [op |-> op, parcel |-> parcel, err |-> err, cpi |-> cpi]

Init ==
    /\ marketplace = NoMarketplace
    /\ parcels = <<>>
    /\ listings = <<>>
    /\ balances = InitialBalances
    /\ now = 0
    /\ lastOp = Op("deploy", 0, "Ok", <<>>)

-----------------------------------------------------------------------------
(* The result of an instruction: its error ("Ok" for none) and the account *)
(* state it leaves when it returns Ok                                      *)

Result(err, m, ps, ls, bal, cpi) ==
    [err |-> err, marketplace |-> m, parcels |-> ps, listings |-> ls,
     balances |-> bal, cpi |-> cpi]

\* an instruction that returns Err: nothing it wrote is kept
Fail(err) == Result(err, marketplace, parcels, listings, balances, <<>>)

\* the runtime commits the writes of an instruction only when it returns Ok
Commit(op, parcel, r) ==
    LET res == r IN
    /\ IF res.err = "Ok"
       THEN /\ marketplace' = res.marketplace
            /\ parcels' = res.parcels
            /\ listings' = res.listings
            /\ balances' = res.balances
       ELSE UNCHANGED <<marketplace, parcels, listings, balances>>
    /\ lastOp' = Op(op, parcel, res.err, IF res.err = "Ok" THEN res.cpi ELSE <<>>)
    /\ UNCHANGED now

-----------------------------------------------------------------------------
(* initialize_marketplace                                                  *)

initialize_marketplace(authority, treasury, fee_percentage) ==
    IF marketplace.initialized THEN Fail("AccountInUse")
    ELSE IF ~(fee_percentage <= MAX_FEE) THEN Fail("FeeTooHigh")
    ELSE Result("Ok",
                [initialized |-> TRUE, authority |-> authority,
                 fee_percentage |-> fee_percentage, treasury |-> treasury,
                 total_volume |-> Zero, active_listings |-> 0,
                 total_parcels_minted |-> Zero],
                parcels, listings, balances, <<>>)

-----------------------------------------------------------------------------
(* mint_land_parcel                                                        *)
(* The parcel's created_at is written here and read by no instruction; it  *)
(* is left out of the record.  metadata_uri is kept as the uri's length.   *)

mint_land_parcel(owner, coordinates, size, rarity, name_len, uri_len, metadata_ok) ==
    IF ~marketplace.initialized THEN Fail("AccountNotInitialized")
    ELSE IF ~(coordinates.x >= MIN_COORDINATE /\ coordinates.x <= MAX_COORDINATE)
    THEN Fail("InvalidCoordinates")
    ELSE IF ~(coordinates.y >= MIN_COORDINATE /\ coordinates.y <= MAX_COORDINATE)
    THEN Fail("InvalidCoordinates")
    ELSE IF ~(name_len <= MAX_NAME_LENGTH) THEN Fail("NameTooLong")
    ELSE IF ~(uri_len <= MAX_URI_LENGTH) THEN Fail("UriTooLong")
    ELSE IF ~metadata_ok THEN Fail("MetadataError")
    ELSE LET minted == checked_add(marketplace.total_parcels_minted, U64(1))
             land_parcel ==
                [mint |-> Len(parcels) + 1, owner |-> owner,
                 coordinates |-> coordinates, size |-> size, rarity |-> rarity,
                 metadata_uri |-> uri_len,
                 is_listed |-> FALSE, total_trades |-> 0,
                 last_sale_price |-> Zero]
         IN  IF ~minted.ok THEN Fail("MathOverflow")
             ELSE Result("Ok",
                         [marketplace EXCEPT !.total_parcels_minted = minted.val],
                         Append(parcels, land_parcel),
                         Append(listings, NoListing),
                         balances, <<>>)

-----------------------------------------------------------------------------
(* list_parcel_for_sale                                                    *)

\* check_expiry without the limit of the listing window
check_expiry_unbounded(expires_at, current_time) ==
    IF expires_at = <<>> THEN "Ok"
    ELSE IF ~(expires_at[1] > current_time) THEN "InvalidExpiryTime"
    ELSE "Ok"

\* the expiry checks of list_parcel_for_sale: the error, or "Ok"
check_expiry(expires_at, current_time) ==
    IF expires_at = <<>> THEN "Ok"
    ELSE IF ~(expires_at[1] > current_time) THEN "InvalidExpiryTime"
    ELSE IF ~(expires_at[1] <= current_time + LISTING_DURATION_SECONDS)
    THEN "ExpiryTooFar"
    ELSE "Ok"

\* listing_init_ok as init_if_needed: an existing account is taken over
listing_init_if_needed(p) == TRUE

\* the listing PDA is derived from the parcel's mint alone, and `init`
\* refuses an address that already holds an account
listing_init_ok(p) == ~listings[p].exists

\* list_parcel_for_sale without the land_parcel.owner == owner constraint
list_parcel_for_sale_by_anyone(p, owner, seller, price, expires_at) ==
    LET land_parcel == parcels[p] IN
    IF ~listing_init_ok(p) THEN Fail("AccountInUse")
    ELSE IF ~u64_ge(price, U64(MIN_PRICE)) THEN Fail("PriceTooLow")
    ELSE IF check_expiry(expires_at, now) # "Ok"
    THEN Fail(check_expiry(expires_at, now))
    ELSE IF ~(~land_parcel.is_listed) THEN Fail("AlreadyListed")
    ELSE LET active == checked_add_u32(marketplace.active_listings)
             listing ==
                [exists |-> TRUE, seller |-> seller,
                 parcel_mint |-> land_parcel.mint, price |-> price,
                 created_at |-> now, expires_at |-> expires_at,
                 status |-> "Active"]
         IN  IF ~active.ok THEN Fail("MathOverflow")
             ELSE Result("Ok",
                         [marketplace EXCEPT !.active_listings = active.val],
                         [parcels EXCEPT ![p].is_listed = TRUE],
                         [listings EXCEPT ![p] = listing],
                         balances, <<>>)

list_parcel_for_sale(p, owner, seller, price, expires_at) ==
    LET land_parcel == parcels[p] IN
    IF ~listing_init_ok(p) THEN Fail("AccountInUse")
    ELSE IF ~(land_parcel.owner = owner) THEN Fail("NotParcelOwner")
    ELSE IF ~u64_ge(price, U64(MIN_PRICE)) THEN Fail("PriceTooLow")
    ELSE IF check_expiry(expires_at, now) # "Ok"
    THEN Fail(check_expiry(expires_at, now))
    ELSE IF ~(~land_parcel.is_listed) THEN Fail("AlreadyListed")
    ELSE LET active == checked_add_u32(marketplace.active_listings)
             listing ==
                [exists |-> TRUE, seller |-> seller,
                 parcel_mint |-> land_parcel.mint, price |-> price,
                 created_at |-> now, expires_at |-> expires_at,
                 status |-> "Active"]
         IN  IF ~active.ok THEN Fail("MathOverflow")
             ELSE Result("Ok",
                         [marketplace EXCEPT !.active_listings = active.val],
                         [parcels EXCEPT ![p].is_listed = TRUE],
                         [listings EXCEPT ![p] = listing],
                         balances, <<>>)

-----------------------------------------------------------------------------
(* purchase_parcel                                                         *)

\* system_program::transfer: the debit fails on insufficient lamports, the
\* credit on overflow; from and to may be the same account
transfer(bal, from, to, lamports) ==
    LET debit == checked_sub(bal[from], lamports)
        debited == [bal EXCEPT ![from] = debit.val]
        credit == checked_add(debited[to], lamports)
    IN  IF ~debit.ok THEN [ok |-> FALSE, bal |-> bal]
        ELSE IF ~credit.ok THEN [ok |-> FALSE, bal |-> bal]
        ELSE [ok |-> TRUE, bal |-> [debited EXCEPT ![to] = credit.val]]

\* is_active refusing only a cancelled listing
is_active_not_cancelled(listing) == listing.status # "Cancelled"

\* is_active with the status check left out
is_active_any(listing) == TRUE

\* require!(listing.status == ListingStatus::Active, ListingNotActive)
is_active(listing) == listing.status = "Active"

\* not_expired refusing a purchase at the very second of the expiry
not_expired_strict(listing, current_time) ==
    listing.expires_at # <<>> => current_time < listing.expires_at[1]

\* not_expired with the expiry never looked at
not_expired_unchecked(listing, current_time) == TRUE

\* the expiry check of purchase_parcel: Clock <= expiry when an expiry is set
not_expired(listing, current_time) ==
    listing.expires_at # <<>> => current_time <= listing.expires_at[1]

\* fee_amount dividing by one digit too few
fee_amount_per_mille(price, fee_percentage) ==
    LET product == checked_mul(price, fee_percentage)
    IN  IF ~product.ok THEN None
        ELSE checked_div(product.val, BASIS_POINTS_DIVISOR \div 10)

\* price.checked_mul(fee_percentage as u64)?.checked_div(10000)?
fee_amount(price, fee_percentage) ==
    LET product == checked_mul(price, fee_percentage)
    IN  IF ~product.ok THEN None
        ELSE checked_div(product.val, BASIS_POINTS_DIVISOR)

\* seller_amount paying the seller the whole price
seller_amount_whole_price(price, fee) == Some(price)

\* price.checked_sub(fee_amount)?
seller_amount(price, fee) == checked_sub(price, fee)

\* transfer_fee with the transfer's error dropped instead of returned
transfer_fee_unchecked(bal, buyer, treasury, fee) ==
    IF fee # Zero
    THEN LET t == transfer(bal, buyer, treasury, fee)
         IN  [ok |-> TRUE, bal |-> t.bal,
              cpi |-> IF t.ok
                      THEN <<[from |-> buyer, to |-> treasury, lamports |-> fee]>>
                      ELSE <<>>]
    ELSE [ok |-> TRUE, bal |-> bal, cpi |-> <<>>]

\* the transfer to the treasury, made only when fee_amount > 0
transfer_fee(bal, buyer, treasury, fee) ==
    IF fee # Zero
    THEN LET t == transfer(bal, buyer, treasury, fee)
         IN  [ok |-> t.ok, bal |-> t.bal,
              cpi |-> IF t.ok
                      THEN <<[from |-> buyer, to |-> treasury, lamports |-> fee]>>
                      ELSE <<>>]
    ELSE [ok |-> TRUE, bal |-> bal, cpi |-> <<>>]

\* sold_parcel leaving the parcel's is_listed flag as it was
sold_parcel_still_listed(land_parcel, buyer, price) ==
    LET trades == checked_add_u32(land_parcel.total_trades)
    IN  [ok |-> trades.ok,
         val |-> [land_parcel EXCEPT !.owner = buyer,
                                     !.total_trades = trades.val,
                                     !.last_sale_price = price]]

\* the parcel after a sale to buyer at price; None when total_trades overflows
sold_parcel(land_parcel, buyer, price) ==
    LET trades == checked_add_u32(land_parcel.total_trades)
    IN  [ok |-> trades.ok,
         val |-> [land_parcel EXCEPT !.owner = buyer, !.is_listed = FALSE,
                                     !.total_trades = trades.val,
                                     !.last_sale_price = price]]

purchase_parcel(p, buyer, seller, treasury) ==
    LET listing == listings[p]
        land_parcel == parcels[p]
    IN
    IF ~listing.exists THEN Fail("AccountNotInitialized")
    ELSE IF ~(listing.seller = seller) THEN Fail("InvalidSeller")
    ELSE IF ~(treasury = marketplace.treasury) THEN Fail("InvalidTreasury")
    ELSE IF ~is_active(listing) THEN Fail("ListingNotActive")
    ELSE IF ~not_expired(listing, now) THEN Fail("ListingExpired")
    ELSE
    LET price == listing.price
        fee == fee_amount(price, marketplace.fee_percentage)
    IN
    IF ~fee.ok THEN Fail("MathOverflow")
    ELSE
    LET amount == seller_amount(price, fee.val) IN
    IF ~amount.ok THEN Fail("MathOverflow")
    ELSE
    LET to_seller == transfer(balances, buyer, seller, amount.val) IN
    IF ~to_seller.ok THEN Fail("InsufficientFunds")
    ELSE
    LET to_treasury == transfer_fee(to_seller.bal, buyer, treasury, fee.val) IN
    IF ~to_treasury.ok THEN Fail("InsufficientFunds")
    ELSE
    LET sold == sold_parcel(land_parcel, buyer, price) IN
    IF ~sold.ok THEN Fail("MathOverflow")
    ELSE
    LET active == checked_sub_u32(marketplace.active_listings) IN
    IF ~active.ok THEN Fail("MathOverflow")
    ELSE
    LET volume == checked_add(marketplace.total_volume, price) IN
    IF ~volume.ok THEN Fail("MathOverflow")
    ELSE Result("Ok",
                [marketplace EXCEPT !.active_listings = active.val,
                                    !.total_volume = volume.val],
                [parcels EXCEPT ![p] = sold.val],
                [listings EXCEPT ![p].status = "Sold"],
                to_treasury.bal,
                <<[from |-> buyer, to |-> seller, lamports |-> amount.val]>>
                    \o to_treasury.cpi)

-----------------------------------------------------------------------------
(* cancel_listing                                                          *)

\* cancel_listing without the has_one = seller constraint
cancel_listing_by_anyone(p, seller) ==
    LET listing == listings[p] IN
    IF ~listing.exists THEN Fail("AccountNotInitialized")
    ELSE IF ~is_active(listing) THEN Fail("ListingNotActive")
    ELSE LET active == checked_sub_u32(marketplace.active_listings)
         IN  IF ~active.ok THEN Fail("MathOverflow")
             ELSE Result("Ok",
                         [marketplace EXCEPT !.active_listings = active.val],
                         [parcels EXCEPT ![p].is_listed = FALSE],
                         [listings EXCEPT ![p].status = "Cancelled"],
                         balances, <<>>)

cancel_listing(p, seller) ==
    LET listing == listings[p] IN
    IF ~listing.exists THEN Fail("AccountNotInitialized")
    ELSE IF ~(listing.seller = seller) THEN Fail("NotListingSeller")
    ELSE IF ~is_active(listing) THEN Fail("ListingNotActive")
    ELSE LET active == checked_sub_u32(marketplace.active_listings)
         IN  IF ~active.ok THEN Fail("MathOverflow")
             ELSE Result("Ok",
                         [marketplace EXCEPT !.active_listings = active.val],
                         [parcels EXCEPT ![p].is_listed = FALSE],
                         [listings EXCEPT ![p].status = "Cancelled"],
                         balances, <<>>)

-----------------------------------------------------------------------------
(* update_marketplace_fee                                                  *)

\* update_marketplace_fee without the has_one = authority constraint
update_marketplace_fee_by_anyone(authority, new_fee_percentage) ==
    IF ~marketplace.initialized THEN Fail("AccountNotInitialized")
    ELSE IF ~(new_fee_percentage <= MAX_FEE) THEN Fail("FeeTooHigh")
    ELSE Result("Ok",
                [marketplace EXCEPT !.fee_percentage = new_fee_percentage],
                parcels, listings, balances, <<>>)

\* update_marketplace_fee without the check of the new fee
update_marketplace_fee_unchecked(authority, new_fee_percentage) ==
    IF ~marketplace.initialized THEN Fail("AccountNotInitialized")
    ELSE IF ~(marketplace.authority = authority)
    THEN Fail("NotMarketplaceAuthority")
    ELSE Result("Ok",
                [marketplace EXCEPT !.fee_percentage = new_fee_percentage],
                parcels, listings, balances, <<>>)

update_marketplace_fee(authority, new_fee_percentage) ==
    IF ~marketplace.initialized THEN Fail("AccountNotInitialized")
    ELSE IF ~(marketplace.authority = authority)
    THEN Fail("NotMarketplaceAuthority")
    ELSE IF ~(new_fee_percentage <= MAX_FEE) THEN Fail("FeeTooHigh")
    ELSE Result("Ok",
                [marketplace EXCEPT !.fee_percentage = new_fee_percentage],
                parcels, listings, balances, <<>>)

-----------------------------------------------------------------------------------------------------------------------------------------------------
(* The instructions as steps, over the arguments and signers given          *)

InitializeWith(authorities, treasuries, fees) ==
    \E authority \in authorities, treasury \in treasuries, fee \in fees :
        Commit("initialize", 0,
               initialize_marketplace(authority, treasury, fee))

MintWith(limit, owners, coords, name_lens, uri_lens, metadata_oks) ==
    /\ Len(parcels) < limit
    /\ \E owner \in owners, coordinates \in coords, name_len \in name_lens,
          uri_len \in uri_lens, metadata_ok \in metadata_oks :
        Commit("mint", 0,
               mint_land_parcel(owner, coordinates, "Medium", "Rare",
                                name_len, uri_len, metadata_ok))

\* once the parcel's listing account exists every argument meets the same
\* refusal of `init`, and only the arguments of again are tried
ListWith(owners, sellers, first, again) ==
    \E p \in 1..Len(parcels), owner \in owners, seller \in sellers :
        \E args \in IF listings[p].exists THEN again ELSE first :
            Commit("list", p,
                   list_parcel_for_sale(p, owner, seller, args[1], args[2]))

PurchaseWith(buyers, sellers, treasuries) ==
    \E p \in 1..Len(parcels), buyer \in buyers, seller \in sellers,
       treasury \in treasuries :
        Commit("purchase", p, purchase_parcel(p, buyer, seller, treasury))

CancelWith(sellers) ==
    \E p \in 1..Len(parcels), seller \in sellers :
        Commit("cancel", p, cancel_listing(p, seller))

UpdateFeeWith(authorities, fees) ==
    \E authority \in authorities, fee \in fees :
        Commit("update_fee", 0, update_marketplace_fee(authority, fee))

-----------------------------------------------------------------------------
(* Spec: one parcel, every argument                                        *)

InitializeMarketplace ==
    InitializeWith(AuthorityInputs, TreasuryInputs, FeeInputs)

MintLandParcel ==
    MintWith(MaxParcels, OwnerInputs, CoordinateInputs,
             {MAX_NAME_LENGTH, MAX_NAME_LENGTH + 1},
             {MAX_URI_LENGTH, MAX_URI_LENGTH + 1}, BOOLEAN)

ListParcelForSale == ListWith(Keys, Keys, ListInputs(now), RelistInputs(now))

PurchaseParcel == PurchaseWith(Keys, Keys, Keys)

CancelListing == CancelWith(Keys)

UpdateMarketplaceFee == UpdateFeeWith(Keys, FeeInputs)

\* the cluster clock moves forward between instructions
Tick ==
    /\ now < MaxTicks
    /\ \E d \in TickInputs : now' = now + d
    /\ lastOp' = Op("tick", 0, "Ok", <<>>)
    /\ UNCHANGED <<marketplace, parcels, listings, balances>>

Next ==
    \/ InitializeMarketplace
    \/ MintLandParcel
    \/ ListParcelForSale
    \/ PurchaseParcel
    \/ CancelListing
    \/ UpdateMarketplaceFee
    \/ Tick

Spec == Init /\ [][Next]_vars

-----------------------------------------------------------------------------
(* SpecMarket: several parcels side by side, minted to alice and listed    *)
(* without expiry at 2,000,000 or 2^63 by alice or bob, with a fee rate of *)
(* 0 or 250 fixed at initialization                                        *)

MarketListInputs == {<<U64(2 * MIN_PRICE), <<>> >>, <<Pow63, <<>> >>}

MarketInitialize == InitializeWith(AuthorityInputs, TreasuryInputs, {0, 250})

MarketMint ==
    MintWith(MaxMarketParcels, {"alice"}, {[x |-> 100, y |-> 200]},
             {MAX_NAME_LENGTH}, {MAX_URI_LENGTH}, {TRUE})

MarketList ==
    ListWith(Keys, {"alice", "bob"}, MarketListInputs, MarketListInputs)

MarketPurchase == PurchaseWith(Keys, Keys, TreasuryInputs)

MarketCancel == CancelWith(Keys)

MarketNext ==
    \/ MarketInitialize
    \/ MarketMint
    \/ MarketList
    \/ MarketPurchase
    \/ MarketCancel

SpecMarket == Init /\ [][MarketNext]_vars

-----------------------------------------------------------------------------
(* SpecFee: one sale whose fee rate moves while the listing is open.  The  *)
(* marketplace starts at the default 2.5%, the parcel is minted to alice   *)
(* and listed without expiry, and update_marketplace_fee is called, by     *)
(* anyone and with any fee argument, only while a listing is Active.       *)

MARKETPLACE_FEE_BASIS_POINTS == 250

FeeListInputs ==
    {<<U64(MIN_PRICE + 39), <<>> >>, <<U64(2 * MIN_PRICE), <<>> >>,
     <<Pow63, <<>> >>}

FeeInitialize ==
    InitializeWith(AuthorityInputs, TreasuryInputs,
                   {MARKETPLACE_FEE_BASIS_POINTS})

FeeMint ==
    MintWith(MaxParcels, {"alice"}, {[x |-> 100, y |-> 200]},
             {MAX_NAME_LENGTH}, {MAX_URI_LENGTH}, {TRUE})

FeeList == ListWith(Keys, {"alice", "bob"}, FeeListInputs, FeeListInputs)

FeeUpdate ==
    /\ \E p \in 1..Len(listings) : listings[p].status = "Active"
    /\ UpdateFeeWith(Keys, FeeInputs)

FeePurchase == PurchaseWith(Keys, Keys, TreasuryInputs)

FeeCancel == CancelWith(Keys)

FeeNext ==
    \/ FeeInitialize
    \/ FeeMint
    \/ FeeList
    \/ FeeUpdate
    \/ FeePurchase
    \/ FeeCancel

SpecFee == Init /\ [][FeeNext]_vars

-----------------------------------------------------------------------------
(* Properties                                                              *)

\* the Listing records that exist
ListingIds == {i \in DOMAIN listings : listings[i].exists}

\* the Listing records with stored status Active that reference parcel p
ActiveListingsOf(p) ==
    {i \in ListingIds : /\ listings[i].parcel_mint = parcels[p].mint
                        /\ listings[i].status = "Active"}

\* a purchase of parcel p's listing by buyer that names the listing's seller
\* and the marketplace's treasury, as the account constraints require
Purchase(p, buyer) ==
    purchase_parcel(p, buyer, listings[p].seller, marketplace.treasury)

\* r leaves every account as it is now
NoChange(r) ==
    /\ r.marketplace = marketplace
    /\ r.parcels = parcels
    /\ r.listings = listings
    /\ r.balances = balances

\* C1: in every reachable state the marketplace's activeListings counter
\* equals the number of Listing records whose stored status is Active.
C1_ActiveListingsCount ==
    marketplace.active_listings =
        Cardinality({i \in ListingIds : listings[i].status = "Active"})

\* two listings exist, one sold in the last instruction and one still Active
C1_Witness ==
    /\ lastOp.op = "purchase" /\ lastOp.err = "Ok"
    /\ Cardinality(ListingIds) = 2
    /\ \E i \in ListingIds, j \in ListingIds :
          listings[i].status = "Sold" /\ listings[j].status = "Active"
    /\ marketplace.active_listings = 1

\* C2: for every parcel, isListed is true iff exactly one Listing record
\* referencing it is Active, and no parcel has two Active listings.
C2_IsListedIffOneActive ==
    \A p \in DOMAIN parcels :
        /\ parcels[p].is_listed <=> Cardinality(ActiveListingsOf(p)) = 1
        /\ Cardinality(ActiveListingsOf(p)) <= 1

\* a listed parcel was sold: its flag is cleared and its listing is Sold
C2_Witness ==
    /\ lastOp.op = "purchase" /\ lastOp.err = "Ok"
    /\ ~parcels[lastOp.parcel].is_listed
    /\ ActiveListingsOf(lastOp.parcel) = {}
    /\ listings[lastOp.parcel].status = "Sold"

\* C3: once a purchase of a listing has succeeded, every further purchase of
\* it, by any buyer, fails with ListingNotActive and changes no balance, parcel,
\* listing or marketplace field; so of two attempts exactly one can succeed.
C3_SecondPurchaseRejected ==
    \A p \in DOMAIN listings :
        listings[p].status = "Sold" =>
            /\ \A buyer \in Keys :
                  /\ Purchase(p, buyer).err = "ListingNotActive"
                  /\ NoChange(Purchase(p, buyer))
            /\ \A buyer \in Keys, seller \in Keys, treasury \in Keys :
                  purchase_parcel(p, buyer, seller, treasury).err # "Ok"
            /\ lastOp.op = "purchase" /\ lastOp.parcel = p
                  => lastOp.err \in {"Ok", "ListingNotActive",
                                     "InvalidSeller", "InvalidTreasury"}

\* a second purchase of a sold listing was attempted and refused
C3_Witness ==
    /\ lastOp.op = "purchase" /\ lastOp.err = "ListingNotActive"
    /\ listings[lastOp.parcel].status = "Sold"

\* the largest u64
U64Max == <<Limb - 1, Limb - 1, Limb - 1, Limb - 1>>

\* price * bps does not fit in 64 bits: price exceeds floor((2^64 - 1) / bps)
ProductOverflows(price, bps) ==
    bps > 0 /\ ~u64_ge(checked_div(U64Max, bps).val, price)

\* fee = floor(price * bps / 10000): 0 <= price * bps - fee * 10000 < 10000
IsFloorFee(price, bps, fee) ==
    LET product == checked_mul(price, bps)
        back == checked_mul(fee, BASIS_POINTS_DIVISOR)
        rest == checked_sub(product.val, back.val)
    IN  /\ product.ok /\ back.ok /\ rest.ok
        /\ IsSmall(rest.val)
        /\ ToInt(rest.val) < BASIS_POINTS_DIVISOR

\* the lamports the transfers of cpi send to the seller and to the treasury
PaidToSeller(cpi) == cpi[1].lamports
PaidToTreasury(cpi) == IF Len(cpi) >= 2 THEN cpi[2].lamports ELSE Zero

\* the split of price that the transfers cpi carry is the one of the fee rate bps
IsSplit(price, bps, cpi) ==
    /\ Len(cpi) \in {1, 2}
    /\ IsFloorFee(price, bps, PaidToTreasury(cpi))
    /\ checked_sub(price, PaidToTreasury(cpi)) = Some(PaidToSeller(cpi))
    /\ checked_add(PaidToSeller(cpi), PaidToTreasury(cpi)) = Some(price)

\* the listing is Active and the clock has not passed its expiry
Open(l) ==
    /\ l.exists /\ l.status = "Active"
    /\ l.expires_at = <<>> \/ now <= l.expires_at[1]

\* C4: once a parcel's listing is Sold or Cancelled, a listParcelForSale on the
\* parcel signed by its current owner with a valid price and a valid or absent
\* expiry succeeds.
C4_RelistAfterClose ==
    \A p \in DOMAIN parcels :
        listings[p].status \in {"Sold", "Cancelled"} =>
            \A price \in {U64(MIN_PRICE), U64(2 * MIN_PRICE)},
               expires_at \in {<<>>, <<now + 1>>, <<now + LISTING_DURATION_SECONDS>>} :
                list_parcel_for_sale(p, parcels[p].owner, parcels[p].owner,
                                     price, expires_at).err = "Ok"

\* C5: for every completed purchase, with the stored fee rate in 0..1000,
\* feeAmount = floor(price * feeBasisPoints / 10000), sellerAmount = price -
\* feeAmount and sellerAmount + feeAmount = price; and a purchase of an open
\* listing whose price * feeBasisPoints does not fit in 64 bits fails with
\* MathOverflow and changes nothing.
C5_FeeSplit ==
    /\ lastOp.op = "purchase" /\ lastOp.err = "Ok" =>
          /\ marketplace.fee_percentage \in 0..MAX_FEE
          /\ IsSplit(listings[lastOp.parcel].price, marketplace.fee_percentage,
                     lastOp.cpi)
    /\ \A p \in DOMAIN listings, buyer \in Keys :
          /\ Purchase(p, buyer).err = "Ok" =>
                IsSplit(listings[p].price, marketplace.fee_percentage,
                        Purchase(p, buyer).cpi)
          /\ Open(listings[p])
             /\ ProductOverflows(listings[p].price, marketplace.fee_percentage)
                => /\ Purchase(p, buyer).err = "MathOverflow"
                   /\ NoChange(Purchase(p, buyer))

\* a purchase was completed whose fee is rounded down: 1,000,039 at 250 bps
C5_Witness ==
    /\ lastOp.op = "purchase" /\ lastOp.err = "Ok"
    /\ listings[lastOp.parcel].price = U64(MIN_PRICE + 39)
    /\ marketplace.fee_percentage = 250
    /\ PaidToTreasury(lastOp.cpi) = U64(25000)
    /\ PaidToSeller(lastOp.cpi) = U64(MIN_PRICE + 39 - 25000)

\* a u64 widened by a fifth limb, and the sum of a widened value and a u64
Wide(a) == <<a[1], a[2], a[3], a[4], 0>>
WideAdd(w, a) ==
    LET s0 == w[1] + a[1]
        s1 == w[2] + a[2] + s0 \div Limb
        s2 == w[3] + a[3] + s1 \div Limb
        s3 == w[4] + a[4] + s2 \div Limb
        s4 == w[5] + s3 \div Limb
    IN  <<s0 % Limb, s1 % Limb, s2 % Limb, s3 % Limb, s4>>

\* the lamports held by all of the keys ks together
RECURSIVE TotalLamports(_, _)
TotalLamports(bal, ks) ==
    IF ks = {} THEN Wide(Zero)
    ELSE LET k == CHOOSE x \in ks : TRUE
         IN  WideAdd(TotalLamports(bal, ks \ {k}), bal[k])

\* the step is a purchase_parcel instruction on parcel p / one that returned Ok
PurchaseStep(p) == lastOp'.op = "purchase" /\ lastOp'.parcel = p
PurchasedStep(p) == PurchaseStep(p) /\ lastOp'.err = "Ok"
CancelStep(p) == lastOp'.op = "cancel" /\ lastOp'.parcel = p

\* C6: a successful purchaseParcel of a listing with price p moves exactly
\* sellerAmount from the buyer to the listing's seller and exactly feeAmount
\* from the buyer to the treasury (no fee transfer only when feeAmount is 0),
\* sets the parcel's owner to the buyer, isListed to false, totalTrades to its
\* old value + 1 and lastSalePrice to p, sets the listing to Sold, decreases
\* activeListings by 1 and increases totalVolume by p; 2,000,000 at 250 bps
\* gives the seller 1,950,000 and the treasury 50,000.
C6_PurchaseEffects ==
    [][\A p \in DOMAIN listings :
        PurchasedStep(p) =>
            LET cpi == lastOp'.cpi
                buyer == cpi[1].from
                l == listings[p]
                price == l.price
                paid == PaidToSeller(cpi)
                fee == PaidToTreasury(cpi)
            IN  /\ Open(l)
                /\ IsSplit(price, marketplace.fee_percentage, cpi)
                /\ cpi[1] = [from |-> buyer, to |-> l.seller, lamports |-> paid]
                /\ Len(cpi) = 2 =>
                      /\ fee # Zero
                      /\ cpi[2] = [from |-> buyer, to |-> marketplace.treasury,
                                   lamports |-> fee]
                /\ \A k \in Keys :
                      WideAdd(Wide(balances'[k]),
                              IF k = buyer THEN price ELSE Zero)
                      = WideAdd(WideAdd(Wide(balances[k]),
                                        IF k = l.seller THEN paid ELSE Zero),
                                IF k = marketplace.treasury THEN fee ELSE Zero)
                /\ parcels'[p] = [parcels[p] EXCEPT !.owner = buyer,
                                                    !.is_listed = FALSE,
                                                    !.total_trades = @ + 1,
                                                    !.last_sale_price = price]
                /\ \A q \in DOMAIN parcels : q # p => parcels'[q] = parcels[q]
                /\ listings'[p] = [l EXCEPT !.status = "Sold"]
                /\ \A q \in DOMAIN listings : q # p => listings'[q] = listings[q]
                /\ checked_add(marketplace.total_volume, price).ok
                /\ marketplace' =
                      [marketplace EXCEPT
                          !.active_listings = @ - 1,
                          !.total_volume = checked_add(@, price).val]
                /\ price = U64(2 * MIN_PRICE) /\ marketplace.fee_percentage = 250
                      => paid = U64(1950000) /\ fee = U64(50000)]_vars

\* the scenario purchase was completed: 2,000,000 at 250 bps
C6_Witness ==
    /\ lastOp.op = "purchase" /\ lastOp.err = "Ok"
    /\ listings[lastOp.parcel].price = U64(2 * MIN_PRICE)
    /\ listings[lastOp.parcel].status = "Sold"
    /\ marketplace.fee_percentage = 250
    /\ marketplace.total_volume = U64(2 * MIN_PRICE)
    /\ Len(lastOp.cpi) = 2
    /\ lastOp.cpi[1].lamports = U64(1950000)
    /\ lastOp.cpi[2].lamports = U64(50000)
    /\ parcels[lastOp.parcel].owner = lastOp.cpi[1].from
    /\ parcels[lastOp.parcel].total_trades = 1

\* C7: a purchaseParcel that fails at any step leaves every balance, the parcel,
\* the listing and the marketplace as they were; one that succeeds has made
\* both transfers (the buyer is out the whole price), or the seller's alone
\* when the fee is 0; and no step creates or destroys lamports, so no balance
\* is driven below zero.
C7_PurchaseAtomic ==
    [][/\ \A p \in DOMAIN listings :
            /\ PurchaseStep(p) /\ lastOp'.err # "Ok" =>
                  /\ UNCHANGED <<marketplace, parcels, listings, balances>>
                  /\ lastOp'.cpi = <<>>
            /\ PurchasedStep(p) =>
                  /\ checked_add(PaidToSeller(lastOp'.cpi),
                                 PaidToTreasury(lastOp'.cpi))
                        = Some(listings[p].price)
                  /\ Len(lastOp'.cpi) = 1 =>
                        IsFloorFee(listings[p].price,
                                   marketplace.fee_percentage, Zero)
       /\ TotalLamports(balances', Keys) = TotalLamports(balances, Keys)]_vars

\* a purchase failed at the fee transfer: the buyer could pay the seller's
\* share but not the fee after it, and nobody was paid
C7_Witness ==
    /\ lastOp.op = "purchase" /\ lastOp.err = "InsufficientFunds"
    /\ balances = InitialBalances
    /\ \E buyer \in Keys :
          LET l == listings[lastOp.parcel]
              fee == fee_amount(l.price, marketplace.fee_percentage).val
              paid == seller_amount(l.price, fee).val
          IN  /\ Purchase(lastOp.parcel, buyer).err = "InsufficientFunds"
              /\ fee # Zero
              /\ transfer(balances, buyer, l.seller, paid).ok

\* C8: for a listing with expiresAt set and stored status Active, a
\* purchaseParcel at now > expiresAt fails with ListingExpired and changes
\* nothing, and one at now <= expiresAt is not rejected for expiry.
C8_ExpiredPurchaseRejected ==
    \A p \in DOMAIN listings, buyer \in Keys :
        LET l == listings[p] IN
        l.exists /\ l.status = "Active" /\ l.expires_at # <<>> =>
            /\ now > l.expires_at[1] =>
                  /\ Purchase(p, buyer).err = "ListingExpired"
                  /\ NoChange(Purchase(p, buyer))
            /\ now <= l.expires_at[1] =>
                  Purchase(p, buyer).err # "ListingExpired"
            /\ lastOp.op = "purchase" /\ lastOp.parcel = p =>
                  (lastOp.err = "ListingExpired" => now > l.expires_at[1])

\* a purchase was refused as expired while the listing still reads Active
C8_Witness ==
    /\ lastOp.op = "purchase" /\ lastOp.err = "ListingExpired"
    /\ listings[lastOp.parcel].status = "Active"
    /\ now = listings[lastOp.parcel].expires_at[1] + 1

\* the listing's stored status is Sold or Cancelled
Closed(l) == l.status \in {"Sold", "Cancelled"}

\* C9 as stated: once a listing's stored status is Sold or Cancelled no
\* operation changes its status, seller, price or expiry, and every
\* purchaseParcel or cancelListing against it fails with ListingNotActive
\* (a purchase that names another seller or treasury account than the
\* listing's is not counted as one against it).
C9_ClosedFailsNotActive ==
    [][\A p \in DOMAIN listings :
        Closed(listings[p]) =>
            /\ listings'[p] = listings[p]
            /\ CancelStep(p) => lastOp'.err = "ListingNotActive"
            /\ PurchaseStep(p)
               /\ lastOp'.err \notin {"InvalidSeller", "InvalidTreasury"}
                  => lastOp'.err = "ListingNotActive"]_vars

\* C9 as amended: once a listing's stored status is Sold or Cancelled no
\* operation changes the record, and every purchaseParcel or cancelListing
\* against it fails and changes nothing: with ListingNotActive when the account
\* constraints pass (the cancel is signed by the recorded seller, the purchase
\* names the recorded seller and the treasury), with NotListingSeller for a
\* cancel by anyone else, and with InvalidSeller or InvalidTreasury for a
\* purchase naming another seller or treasury.
C9_ClosedIsFinal ==
    [][\A p \in DOMAIN listings :
        Closed(listings[p]) =>
            /\ listings'[p] = listings[p]
            /\ PurchaseStep(p) \/ CancelStep(p) =>
                  /\ lastOp'.err # "Ok"
                  /\ UNCHANGED <<marketplace, parcels, listings, balances>>
            /\ PurchaseStep(p) =>
                  lastOp'.err \in {"ListingNotActive", "InvalidSeller",
                                   "InvalidTreasury"}
            /\ CancelStep(p) =>
                  lastOp'.err \in {"ListingNotActive", "NotListingSeller"}
            /\ \A k \in Keys :
                  /\ Purchase(p, k).err = "ListingNotActive"
                  /\ cancel_listing(p, k).err =
                        IF k = listings[p].seller THEN "ListingNotActive"
                        ELSE "NotListingSeller"
                  /\ \A t \in Keys :
                        purchase_parcel(p, k, listings[p].seller, t).err =
                            IF t = marketplace.treasury THEN "ListingNotActive"
                            ELSE "InvalidTreasury"
                  /\ \A a \in Keys, t \in Keys :
                        a # listings[p].seller =>
                            purchase_parcel(p, k, a, t).err = "InvalidSeller"]_vars

\* the recorded seller tried to cancel a listing that was already sold
C9_Witness ==
    /\ lastOp.op = "cancel" /\ lastOp.err = "ListingNotActive"
    /\ listings[lastOp.parcel].status = "Sold"

\* the listing reads Active and the clock has passed its expiry
Expired(l) ==
    /\ l.exists /\ l.status = "Active"
    /\ l.expires_at # <<>> /\ now > l.expires_at[1]

\* C10 as stated: once a listing is logically Expired no operation, neither
\* purchaseParcel nor cancelListing by its seller, changes its stored status.
C10_ExpiredNeverLeaves ==
    [][\A p \in DOMAIN listings :
        Expired(listings[p]) => listings'[p].status = listings[p].status]_vars

\* C10 as amended: once a listing is logically Expired no purchaseParcel moves
\* it to Sold (each fails with ListingExpired); the only change to the record
\* is its status going from Active to Cancelled in a cancelListing signed by
\* its recorded seller, which still succeeds.
C10_ExpiredOnlyCancelled ==
    [][\A p \in DOMAIN listings :
        Expired(listings[p]) =>
            /\ listings'[p] \in {listings[p],
                                 [listings[p] EXCEPT !.status = "Cancelled"]}
            /\ listings'[p] # listings[p] => lastOp' = Op("cancel", p, "Ok", <<>>)
            /\ PurchaseStep(p) => lastOp'.err # "Ok"
            /\ \A k \in Keys :
                  /\ Purchase(p, k).err = "ListingExpired"
                  /\ cancel_listing(p, k).err =
                        IF k = listings[p].seller THEN "Ok"
                        ELSE "NotListingSeller"]_vars

\* the seller cancelled a listing after the clock had passed its expiry
C10_Witness ==
    /\ lastOp = Op("cancel", lastOp.parcel, "Ok", <<>>)
    /\ lastOp.parcel \in DOMAIN listings
    /\ listings[lastOp.parcel].status = "Cancelled"
    /\ listings[lastOp.parcel].expires_at # <<>>
    /\ now > listings[lastOp.parcel].expires_at[1]

\* the step is a list_parcel_for_sale instruction on parcel p that returned Ok
ListedStep(p) ==
    lastOp'.op = "list" /\ lastOp'.parcel = p /\ lastOp'.err = "Ok"

\* C11: every Listing record created by a successful listParcelForSale records
\* as seller the owner recorded on the parcel at that moment, and while the
\* listing stays Active its seller is the parcel's owner.
C11_SellerIsOwner ==
    [][\A p \in DOMAIN listings :
        /\ ListedStep(p) => listings'[p].seller = parcels[p].owner
        /\ listings'[p].status = "Active" =>
              listings'[p].seller = parcels'[p].owner]_vars

\* C12: a cancelListing by the recorded seller on a listing whose stored status
\* is Active succeeds; it sets the status to Cancelled, the parcel's isListed to
\* false and activeListings to its old value - 1, and leaves the parcel's owner,
\* totalTrades and lastSalePrice, the marketplace's totalVolume, fee and
\* totalParcelsMinted, every other record and every balance unchanged.
C12_CancelEffects ==
    [][\A p \in DOMAIN listings :
        /\ listings[p].exists /\ listings[p].status = "Active" =>
              LET r == cancel_listing(p, listings[p].seller)
              IN  /\ r.err = "Ok"
                  /\ r.listings[p].status = "Cancelled"
                  /\ ~r.parcels[p].is_listed
                  /\ r.marketplace.active_listings + 1
                        = marketplace.active_listings
                  /\ r.balances = balances
        /\ CancelStep(p) /\ lastOp'.err = "Ok" =>
              /\ listings[p].status = "Active"
              /\ listings'[p] = [listings[p] EXCEPT !.status = "Cancelled"]
              /\ \A q \in DOMAIN listings : q # p => listings'[q] = listings[q]
              /\ parcels[p].is_listed
              /\ parcels'[p] = [parcels[p] EXCEPT !.is_listed = FALSE]
              /\ \A q \in DOMAIN parcels : q # p => parcels'[q] = parcels[q]
              /\ marketplace.active_listings >= 1
              /\ marketplace' =
                    [marketplace EXCEPT !.active_listings = @ - 1]
              /\ balances' = balances
              /\ lastOp'.cpi = <<>>]_vars

\* the seller cancelled the only Active listing, one without expiry: the
\* counter is back at 0 and the parcel is free and still its owner's
C12_Witness ==
    /\ lastOp.op = "cancel" /\ lastOp.err = "Ok"
    /\ listings[lastOp.parcel].status = "Cancelled"
    /\ listings[lastOp.parcel].expires_at = <<>>
    /\ ~parcels[lastOp.parcel].is_listed
    /\ parcels[lastOp.parcel].total_trades = 0
    /\ marketplace.active_listings = 0
    /\ balances = InitialBalances

\* C13: a cancelListing whose caller is not the listing's recorded seller fails
\* with NotListingSeller and leaves the listing, the parcel's isListed flag,
\* activeListings and everything else unchanged, whatever the listing's status;
\* also when the caller is the parcel's owner, or a would-be buyer.
C13_NotListingSeller ==
    \A p \in ListingIds, caller \in Keys :
        caller # listings[p].seller =>
            /\ cancel_listing(p, caller).err = "NotListingSeller"
            /\ NoChange(cancel_listing(p, caller))

\* a cancel was refused for its caller while the listing is Active and the
\* parcel's owner is not the recorded seller: the owner is among the refused
C13_Witness ==
    /\ lastOp.op = "cancel" /\ lastOp.err = "NotListingSeller"
    /\ listings[lastOp.parcel].status = "Active"
    /\ parcels[lastOp.parcel].is_listed
    /\ parcels[lastOp.parcel].owner # listings[lastOp.parcel].seller
    /\ cancel_listing(lastOp.parcel, parcels[lastOp.parcel].owner).err
          = "NotListingSeller"

\* every (price, expires_at) argument tried, valid or not
AnyListInputs == PriceInputs \X ExpiryInputs(now)

C15_AlreadyListed ==
    \A p \in DOMAIN parcels :
        parcels[p].is_listed =>
            \A args \in RelistInputs(now) :
                LET r == list_parcel_for_sale(p, parcels[p].owner,
                                              parcels[p].owner, args[1], args[2])
                IN  r.err = "AlreadyListed" /\ NoChange(r)

\* fee arguments above the maximum: the first one, and the largest u16
HighFees == {MAX_FEE + 1, Limb - 1}

\* C16: in every reachable state the stored fee rate is in 0..1000;
\* initializeMarketplace and updateMarketplaceFee (by the authority) accept
\* 1000 and store it, and reject every value above 1000 with FeeTooHigh,
\* leaving the stored fee and everything else unchanged.
C16_FeeInRange ==
    /\ marketplace.fee_percentage \in 0..MAX_FEE
    /\ ~marketplace.initialized =>
          \A authority \in Keys, treasury \in Keys :
              /\ initialize_marketplace(authority, treasury, MAX_FEE).err = "Ok"
              /\ initialize_marketplace(authority, treasury, MAX_FEE)
                    .marketplace.fee_percentage = MAX_FEE
              /\ \A fee \in HighFees :
                    /\ initialize_marketplace(authority, treasury, fee).err
                          = "FeeTooHigh"
                    /\ NoChange(initialize_marketplace(authority, treasury, fee))
    /\ marketplace.initialized =>
          /\ update_marketplace_fee(marketplace.authority, MAX_FEE).err = "Ok"
          /\ update_marketplace_fee(marketplace.authority, MAX_FEE)
                .marketplace.fee_percentage = MAX_FEE
          /\ \A fee \in HighFees :
                /\ update_marketplace_fee(marketplace.authority, fee).err
                      = "FeeTooHigh"
                /\ NoChange(update_marketplace_fee(marketplace.authority, fee))
    /\ lastOp.err = "FeeTooHigh" => lastOp.op \in {"initialize", "update_fee"}

\* the fee was set to 1000 and an update above it was then rejected
C16_Witness ==
    /\ lastOp.op = "update_fee" /\ lastOp.err = "FeeTooHigh"
    /\ marketplace.fee_percentage = MAX_FEE

\* C17: after initializeMarketplace no operation changes the marketplace's
\* authority; its fee changes only in a successful updateMarketplaceFee, which
\* only the stored authority can make: an updateMarketplaceFee by any other
\* caller fails with NotMarketplaceAuthority and changes nothing, whatever the
\* fee argument; mint, list, purchase and cancel never change the fee.
C17_AuthorityAndFee ==
    [][marketplace.initialized =>
        /\ marketplace'.authority = marketplace.authority
        /\ marketplace'.fee_percentage # marketplace.fee_percentage =>
              /\ lastOp'.op = "update_fee" /\ lastOp'.err = "Ok"
              /\ \E fee \in FeeInputs :
                    update_marketplace_fee(marketplace.authority, fee).marketplace
                        = marketplace'
        /\ lastOp'.op \in {"mint", "list", "purchase", "cancel", "initialize"} =>
              marketplace'.fee_percentage = marketplace.fee_percentage
        /\ \A caller \in Keys, fee \in FeeInputs :
              caller # marketplace.authority =>
                  /\ update_marketplace_fee(caller, fee).err
                        = "NotMarketplaceAuthority"
                  /\ NoChange(update_marketplace_fee(caller, fee))
        /\ lastOp'.op = "update_fee" /\ lastOp'.err = "NotMarketplaceAuthority" =>
              UNCHANGED <<marketplace, parcels, listings, balances>>]_vars

\* an update of the fee by someone else than the authority was refused while
\* the stored fee is 0 and a listing is Active
C17_Witness ==
    /\ lastOp.op = "update_fee" /\ lastOp.err = "NotMarketplaceAuthority"
    /\ marketplace.authority \in AuthorityInputs
    /\ marketplace.fee_percentage = 0
    /\ marketplace.active_listings = 1

\* the sum of the prices of the Listing records ids, widened by a fifth limb
RECURSIVE SumOfPrices(_)
SumOfPrices(ids) ==
    IF ids = {} THEN Wide(Zero)
    ELSE LET i == CHOOSE x \in ids : TRUE
         IN  WideAdd(SumOfPrices(ids \ {i}), listings[i].price)

\* the Listing records with stored status Sold
SoldIds == {i \in ListingIds : listings[i].status = "Sold"}

\* C18: in every reachable state totalVolume equals the sum of the prices of
\* all Listing records with status Sold; it never decreases from one state to
\* the next, and only a successful purchaseParcel changes it, by the price.
C18_TotalVolume ==
    /\ [](Wide(marketplace.total_volume) = SumOfPrices(SoldIds))
    /\ [][/\ u64_ge(marketplace'.total_volume, marketplace.total_volume)
          /\ marketplace'.total_volume # marketplace.total_volume =>
                /\ lastOp'.op = "purchase" /\ lastOp'.err = "Ok"
                /\ Wide(marketplace'.total_volume)
                      = WideAdd(Wide(marketplace.total_volume),
                                listings[lastOp'.parcel].price)
          /\ lastOp'.op = "purchase" /\ lastOp'.err = "Ok" =>
                marketplace'.total_volume # marketplace.total_volume]_vars

\* two listings were sold, one at 2,000,000 and one at 2^63, and totalVolume
\* is the sum of the two
C18_Witness ==
    /\ lastOp.op = "purchase" /\ lastOp.err = "Ok"
    /\ Cardinality(SoldIds) = 2
    /\ \E i \in SoldIds, j \in SoldIds :
          listings[i].price = U64(2 * MIN_PRICE) /\ listings[j].price = Pow63
    /\ marketplace.total_volume = checked_add(Pow63, U64(2 * MIN_PRICE)).val

\* the errors of the same call in this state and in the next one (retried with
\* the same accounts and arguments)
ListErr(p, owner, seller, args) ==
    list_parcel_for_sale(p, owner, seller, args[1], args[2]).err
ListErrNext(p, owner, seller, args) ==
    (list_parcel_for_sale(p, owner, seller, args[1], args[2]).err)'
PurchaseErr(p, buyer, seller, treasury) ==
    purchase_parcel(p, buyer, seller, treasury).err
PurchaseErrNext(p, buyer, seller, treasury) ==
    (purchase_parcel(p, buyer, seller, treasury).err)'
CancelErr(p, seller) == cancel_listing(p, seller).err
CancelErrNext(p, seller) == (cancel_listing(p, seller).err)'
UpdateFeeErr(authority, fee) == update_marketplace_fee(authority, fee).err
UpdateFeeErrNext(authority, fee) == (update_marketplace_fee(authority, fee).err)'

\* the errors of the program's ErrorCode that the four instructions return
NamedErrors ==
    {"PriceTooLow", "InvalidExpiryTime", "ExpiryTooFar", "AlreadyListed",
     "ListingNotActive", "ListingExpired", "NotParcelOwner", "NotListingSeller",
     "InvalidSeller", "InvalidTreasury", "NotMarketplaceAuthority",
     "FeeTooHigh", "MathOverflow"}

StableErrorsStep ==
       /\ \A p \in DOMAIN parcels, owner \in Keys, seller \in Keys,
             args \in AnyListInputs :
              /\ ListErr(p, owner, seller, args)
                    \in {"PriceTooLow", "InvalidExpiryTime", "NotParcelOwner"} =>
                    ListErrNext(p, owner, seller, args)
                        \in {ListErr(p, owner, seller, args), "AccountInUse"}
              /\ ListErr(p, owner, seller, args) = "AccountInUse" =>
                    ListErrNext(p, owner, seller, args) = "AccountInUse"
       /\ \A p \in ListingIds, buyer \in Keys, seller \in Keys,
             treasury \in Keys :
              /\ PurchaseErr(p, buyer, seller, treasury)
                    \in {"ListingNotActive", "InvalidSeller", "InvalidTreasury"} =>
                    PurchaseErrNext(p, buyer, seller, treasury)
                        = PurchaseErr(p, buyer, seller, treasury)
              /\ PurchaseErr(p, buyer, seller, treasury) = "ListingExpired" =>
                    PurchaseErrNext(p, buyer, seller, treasury)
                        \in {"ListingExpired", "ListingNotActive"}
       /\ \A p \in ListingIds, seller \in Keys :
              CancelErr(p, seller) \in {"NotListingSeller", "ListingNotActive"} =>
                  CancelErrNext(p, seller) = CancelErr(p, seller)
       /\ \A authority \in Keys, fee \in FeeInputs :
              UpdateFeeErr(authority, fee)
                  \in {"NotMarketplaceAuthority", "FeeTooHigh"} =>
                  UpdateFeeErrNext(authority, fee) = UpdateFeeErr(authority, fee)

C20_ListingBounds ==
    /\ \A i \in ListingIds :
          /\ u64_ge(listings[i].price, U64(MIN_PRICE))
          /\ listings[i].expires_at # <<>> =>
                /\ listings[i].created_at < listings[i].expires_at[1]
                /\ listings[i].expires_at[1]
                      <= listings[i].created_at + LISTING_DURATION_SECONDS
    /\ \A p \in DOMAIN parcels, seller \in Keys :
          ~listings[p].exists =>
              LET owner == parcels[p].owner
                  window == now + LISTING_DURATION_SECONDS
                  list(price, expires_at) ==
                      list_parcel_for_sale(p, owner, seller, price, expires_at)
              IN  /\ list(U64(MIN_PRICE), <<>>).err = "Ok"
                  /\ list(U64(MIN_PRICE), <<>>).listings[p].price = U64(MIN_PRICE)
                  /\ \A expires_at \in ExpiryInputs(now) :
                        /\ list(U64(MIN_PRICE - 1), expires_at).err = "PriceTooLow"
                        /\ NoChange(list(U64(MIN_PRICE - 1), expires_at))
                  /\ \A price \in PriceInputs \ {U64(MIN_PRICE - 1)} :
                        /\ \A e \in {now - 1, now} :
                              /\ list(price, <<e>>).err = "InvalidExpiryTime"
                              /\ NoChange(list(price, <<e>>))
                        /\ \A e \in {window + 1, window + window} :
                              /\ list(price, <<e>>).err = "ExpiryTooFar"
                              /\ NoChange(list(price, <<e>>))
                        /\ \A e \in {now + 1, window} :
                              /\ list(price, <<e>>).err = "Ok"
                              /\ list(price, <<e>>).listings[p].expires_at = <<e>>
                              /\ list(price, <<e>>).listings[p].created_at = now

\* a listing was created at the two limits: at MIN_PRICE, expiring exactly 30
\* days after its creation, after the clock had advanced
C20_Witness ==
    /\ lastOp.op = "list" /\ lastOp.err = "Ok"
    /\ listings[lastOp.parcel].price = U64(MIN_PRICE)
    /\ listings[lastOp.parcel].created_at > 0
    /\ listings[lastOp.parcel].expires_at
          = <<listings[lastOp.parcel].created_at + LISTING_DURATION_SECONDS>>

\* floor(price / 10), the fee of the maximum rate
Tenth(price) == checked_div(price, 10).val

\* C21: the fee of a sale is computed from the fee rate stored in the
\* marketplace when purchaseParcel runs, whatever the rate was when the parcel
\* was listed and however often updateMarketplaceFee ran in between; the fee
\* charged never exceeds floor(price / 10) and the seller receives at least
\* price - floor(price / 10).
C21_FeeAtPurchase ==
    [][\A p \in DOMAIN listings :
        /\ PurchasedStep(p) =>
              LET price == listings[p].price
                  cpi == lastOp'.cpi
              IN  /\ IsSplit(price, marketplace.fee_percentage, cpi)
                  /\ u64_ge(Tenth(price), PaidToTreasury(cpi))
                  /\ u64_ge(PaidToSeller(cpi),
                            checked_sub(price, Tenth(price)).val)
        /\ \A buyer \in Keys :
              Purchase(p, buyer).err = "Ok" =>
                  LET price == listings[p].price
                      cpi == Purchase(p, buyer).cpi
                  IN  /\ PaidToTreasury(cpi)
                            = fee_amount(price, marketplace.fee_percentage).val
                      /\ u64_ge(Tenth(price), PaidToTreasury(cpi))
                      /\ u64_ge(PaidToSeller(cpi),
                                checked_sub(price, Tenth(price)).val)]_vars

\* a parcel listed at 2,000,000 while the rate was 2.5% was sold after the
\* rate had been raised to 10%: the treasury got 200,000, not 50,000
C21_Witness ==
    /\ lastOp.op = "purchase" /\ lastOp.err = "Ok"
    /\ listings[lastOp.parcel].price = U64(2 * MIN_PRICE)
    /\ marketplace.fee_percentage = MAX_FEE
    /\ marketplace.fee_percentage # MARKETPLACE_FEE_BASIS_POINTS
    /\ PaidToTreasury(lastOp.cpi) = U64(200000)
    /\ PaidToSeller(lastOp.cpi) = U64(1800000)

====
